---- MODULE Spec2Model ----
(***************************************************************************)
(* Cache-aside vehicle lookup service (tecdoc-caching-app/app.py).         *)
(*                                                                         *)
(* The Flask handler get_vehicle_data validates the query string, derives  *)
(* a cache key, reads the vehicle_cache table, and on a miss calls the     *)
(* Apify actor and upserts a non-empty result.  Two server threads serve   *)
(* requests one after another, so requests for the same key can overlap.   *)
(* Strings are sequences of one-character strings; Python values are       *)
(* tagged records.                                                         *)
(***************************************************************************)
EXTENDS Integers, Sequences, FiniteSets, TLC

(***************************************************************************)
(* Bounds                                                                  *)
(***************************************************************************)
\* longest dataset the provider returns in the model
MaxItems == 2

\* the latest reading of the database clock in the model
MaxClock == 2

\* the server threads; two is the smallest number that lets requests overlap
Threads == {"t1", "t2"}

(***************************************************************************)
(* Python values                                                           *)
(***************************************************************************)
\* request.args.get(name): a missing parameter is None, a given one a string
Missing == [given |-> FALSE, s |-> <<>>]
Given(s) == [given |-> TRUE, s |-> s]

\* the values of cached_data and api_data: None or a list of records
PyNone == [t |-> "None", items |-> <<>>]
PyList(items) == [t |-> "list", items |-> items]

\* Python truthiness of the values above: None and [] are falsy
Truthy(v) == v.t = "list" /\ Len(v.items) > 0

\* truthiness of a query parameter: None and "" are falsy
ArgTruthy(a) == a.given /\ Len(a.s) > 0

(***************************************************************************)
(* Strings                                                                 *)
(***************************************************************************)
Digits == {"0", "1", "2", "3", "4", "5", "6", "7", "8", "9"}
Signs == {"+", "-"}
IsSpace(c) == c = " "

\* str.upper() on one character
UpperChar(c) ==
  CASE c = "a" -> "A"
    [] c = "b" -> "B"
    [] c = "d" -> "D"
    [] c = "i" -> "I"
    [] c = "u" -> "U"
    [] c = "x" -> "X"
    [] OTHER -> c

\* str.upper()
Upper(s) == [i \in 1..Len(s) |-> UpperChar(s[i])]

RECURSIVE LStrip(_)
LStrip(s) == IF s # <<>> /\ IsSpace(Head(s)) THEN LStrip(Tail(s)) ELSE s

RECURSIVE RStrip(_)
RStrip(s) ==
  IF s # <<>> /\ IsSpace(s[Len(s)]) THEN RStrip(SubSeq(s, 1, Len(s) - 1)) ELSE s

\* str.strip(): leading and trailing whitespace removed
Strip(s) == RStrip(LStrip(s))

\* int(s) does not raise ValueError: optional surrounding whitespace, an
\* optional sign, then digits with single underscores between digits
IntParses(s) ==
  LET t == Strip(s)
      d == IF t # <<>> /\ Head(t) \in Signs THEN Tail(t) ELSE t
  IN /\ d # <<>>
     /\ \A i \in 1..Len(d) : d[i] \in Digits \cup {"_"}
     /\ d[1] \in Digits
     /\ d[Len(d)] \in Digits
     /\ \A i \in 1..(Len(d) - 1) : ~(d[i] = "_" /\ d[i + 1] = "_")

\* create_cache_key without the strip() calls
create_cache_key_NoStrip(mk, md, yr) ==
  Upper(mk \o <<"_">> \o md \o <<"_">> \o yr)

\* create_cache_key: f"{make.strip()}_{model.strip()}_{year}".upper()
create_cache_key(mk, md, yr) ==
  Upper(Strip(mk) \o <<"_">> \o Strip(md) \o <<"_">> \o yr)

(***************************************************************************)
(* JSON                                                                    *)
(***************************************************************************)
\* the records a dataset is made of
Items == {"brake-pad"}

RECURSIVE JoinItems(_)
JoinItems(items) ==
  IF items = <<>> THEN <<>>
  ELSE IF Len(items) = 1 THEN <<items[1]>>
  ELSE <<items[1], ",">> \o JoinItems(Tail(items))

\* json.dumps(data) of a list: "[" item "," item ... "]"
json_dumps(v) == <<"[">> \o JoinItems(v.items) \o <<"]">>

\* a read that loses the last record of the list
json_loads_DropsLast(text) ==
  LET inner == SubSeq(text, 2, Len(text) - 1)
      n == (Len(inner) + 1) \div 2
  IN PyList([i \in 1..(n - 1) |-> inner[2 * i - 1]])

\* the jsonb column read back by the driver: the list between the brackets
json_loads(text) ==
  LET inner == SubSeq(text, 2, Len(text) - 1)
      n == (Len(inner) + 1) \div 2
  IN PyList([i \in 1..n |-> inner[2 * i - 1]])

(***************************************************************************)
(* The Lookup Provider (the Apify actor run)                               *)
(***************************************************************************)
\* the datasets of at most MaxItems records, the empty one included
Datasets == UNION {[1..n -> Items] : n \in 0..MaxItems}

\* what apify_client does for one call: it raises, the run has no
\* defaultDatasetId, or the run's dataset is listed
ProviderOutcomes ==
  {[kind |-> "raise", items |-> <<>>], [kind |-> "no_dataset", items |-> <<>>]}
    \cup {[kind |-> "items", items |-> d] : d \in Datasets}

\* call_apify_api answering [] where the client raised
call_apify_api_SwallowsError(o) ==
  IF o.kind = "items" /\ Len(o.items) > 0 THEN PyList(o.items)
  ELSE PyList(<<>>)

\* call_apify_api: None on any exception, [] without a dataset or with an
\* empty one, the dataset's items otherwise
call_apify_api(o) ==
  IF o.kind = "raise" THEN PyNone
  ELSE IF o.kind = "items" /\ Len(o.items) > 0 THEN PyList(o.items)
  ELSE PyList(<<>>)

(***************************************************************************)
(* Requests                                                                *)
(***************************************************************************)
AUDI == <<"A", "U", "D", "I">>
AudiSp == <<"A", "u", "d", "i", " ">>
A4 == <<"A", "4">>
SpA4 == <<" ", "a", "4">>
Y2020 == <<"2", "0", "2", "0">>
PlusY2020 == <<"+", "2", "0", "2", "0">>
NotANumber == <<"2", "0", "x">>

\* the query strings the clients send: <<make, model, year>>
Queries ==
  { <<Given(AUDI), Given(A4), Given(Y2020)>>,
    <<Given(AudiSp), Given(SpA4), Given(Y2020)>>,
    <<Given(AUDI), Given(A4), Given(PlusY2020)>>,
    <<Missing, Given(A4), Given(Y2020)>>,
    <<Given(AUDI), Given(<<>>), Given(Y2020)>>,
    <<Given(AUDI), Given(A4), Missing>>,
    <<Given(AUDI), Given(A4), Given(NotANumber)>> }

\* a jsonify(...) response: status, the "source" field, the "data" field
Response(status, source, data) ==
  [status |-> status, source |-> source, data |-> data]
NoResponse == Response(0, "none", PyNone)

VARIABLES
  rows,         \* the vehicle_cache table: rows [cache_key, data, retrieved_at]
                \* (and payload, the value that was dumped into data)
  pc,           \* where each thread's handler stands
  make,         \* request.args.get('make') of the thread's request
  model,        \* request.args.get('model')
  year_str,     \* request.args.get('year')
  cache_key,    \* the handler's cache_key
  cached_data,  \* the handler's cached_data
  api_data,     \* the handler's api_data
  conn,         \* whether the thread holds an open database connection
  resp,         \* the response of the thread's request
  trace,        \* history: the store and provider interactions of the request
  written,      \* history: another thread wrote a row of the request's key
                \* since the request began (or since its own commit)
  after,        \* history: the threads whose latest request had ended when
                \* the thread's request began
  main_pc,      \* where the module's top-level code stands
  main_conn,    \* whether initialize_db holds an open database connection
  now           \* the database server's clock

vars == <<rows, pc, make, model, year_str, cache_key, cached_data, api_data,
          conn, resp, trace, written, after, main_pc, main_conn, now>>

locals == <<make, model, year_str, cache_key>>
history == <<written, after>>
startup == <<main_pc, main_conn>>

\* the row of key k, as a set of at most one row (cache_key is the primary key)
RowsOf(k) == {r \in rows : r.cache_key = k}

Init ==
  /\ rows = {}
  /\ pc = [t \in Threads |-> "idle"]
  /\ make = [t \in Threads |-> Missing]
  /\ model = [t \in Threads |-> Missing]
  /\ year_str = [t \in Threads |-> Missing]
  /\ cache_key = [t \in Threads |-> <<>>]
  /\ cached_data = [t \in Threads |-> PyNone]
  /\ api_data = [t \in Threads |-> PyNone]
  /\ conn = [t \in Threads |-> FALSE]
  /\ resp = [t \in Threads |-> NoResponse]
  /\ trace = [t \in Threads |-> <<>>]
  /\ written = [t \in Threads |-> FALSE]
  /\ after = [t \in Threads |-> {}]
  /\ main_pc = "initialize_db"
  /\ main_conn = FALSE
  /\ now = 0

\* validation without the int(year_str) attempt
ParamsValid_NoIntCheck(mk, md, yr) ==
  ArgTruthy(mk) /\ ArgTruthy(md) /\ ArgTruthy(yr)

\* lines 185-192: all([make, model, year_str]) and int(year_str)
ParamsValid(mk, md, yr) ==
  /\ ArgTruthy(mk) /\ ArgTruthy(md) /\ ArgTruthy(yr)
  /\ IntParses(yr.s)

\* get_vehicle_data, lines 181-194: a thread takes the next request, validates
\* its parameters and derives the key
Validate(t, q) ==
  /\ main_pc = "serving"
  /\ pc[t] \in {"idle", "done"}
  /\ make' = [make EXCEPT ![t] = q[1]]
  /\ model' = [model EXCEPT ![t] = q[2]]
  /\ year_str' = [year_str EXCEPT ![t] = q[3]]
  /\ cached_data' = [cached_data EXCEPT ![t] = PyNone]
  /\ api_data' = [api_data EXCEPT ![t] = PyNone]
  /\ trace' = [trace EXCEPT ![t] = <<>>]
  /\ written' = [written EXCEPT ![t] = FALSE]
  /\ after' = [u \in Threads |->
                 IF u = t THEN {v \in Threads \ {t} : pc[v] = "done"}
                 ELSE after[u] \ {t}]
  /\ IF ParamsValid(q[1], q[2], q[3])
     THEN LET k == create_cache_key(q[1].s, q[2].s, q[3].s)
          IN /\ cache_key' = [cache_key EXCEPT ![t] = k]
             /\ pc' = [pc EXCEPT ![t] = "check_cache"]
             /\ resp' = [resp EXCEPT ![t] = NoResponse]
     ELSE /\ cache_key' = [cache_key EXCEPT ![t] = <<>>]
          /\ pc' = [pc EXCEPT ![t] = "done"]
          /\ resp' = [resp EXCEPT ![t] = Response(400, "none", PyNone)]
  /\ UNCHANGED <<rows, conn, startup, now>>

\* one entry of a request's history: the operation and how it ended (and, for
\* the provider, the dataset it listed)
Event(op, res) == [op |-> op, res |-> res, items |-> <<>>]

\* get_db_connection: psycopg2.connect returns a connection, or raises and
\* the function returns None
get_db_connection == {TRUE, FALSE}

\* the query of thread t's request
QueryOf(t) == <<make[t], model[t], year_str[t]>>

\* initialize_db, lines 52-54, called while the module is loaded (line 75):
\* the connection is opened, or the function returns and the routes are served
InitializeDbConnect ==
  /\ main_pc = "initialize_db"
  /\ \E ok \in get_db_connection :
       IF ok
       THEN main_conn' = TRUE /\ main_pc' = "create_table"
       ELSE main_pc' = "serving" /\ UNCHANGED main_conn
  /\ UNCHANGED <<rows, pc, locals, cached_data, api_data, conn, resp, trace,
                 history, now>>

\* initialize_db, lines 56-72: CREATE TABLE IF NOT EXISTS commits, or it raises
\* and the except clause prints; either way the finally clause closes the
\* connection and the table's rows are as they were
InitializeDbCreate ==
  /\ main_pc = "create_table"
  /\ main_conn
  /\ main_conn' = FALSE
  /\ main_pc' = "serving"
  /\ UNCHANGED <<rows, pc, locals, cached_data, api_data, conn, resp, trace,
                 history, now>>

\* check_cache, lines 85-87: the connection is opened, or None is returned and
\* the handler goes on to the provider
CheckCacheConnect(t) ==
  /\ pc[t] = "check_cache"
  /\ \E ok \in get_db_connection :
       IF ok
       THEN /\ conn' = [conn EXCEPT ![t] = TRUE]
            /\ pc' = [pc EXCEPT ![t] = "select"]
            /\ trace' = [trace EXCEPT ![t] = Append(@, Event("connect", "ok"))]
            /\ UNCHANGED cached_data
       ELSE /\ cached_data' = [cached_data EXCEPT ![t] = PyNone]
            /\ pc' = [pc EXCEPT ![t] = "call_api"]
            /\ trace' = [trace EXCEPT ![t] = Append(@, Event("connect", "fail"))]
            /\ UNCHANGED conn
  /\ UNCHANGED <<rows, locals, api_data, resp, history, startup, now>>

\* the handler going on to the provider after a hit (the return is missing)
CheckCacheSelect_FallsThrough(t) ==
  /\ pc[t] = "select"
  /\ conn[t]
  /\ LET found == RowsOf(cache_key[t])
         value == IF found = {} THEN PyNone
                  ELSE json_loads((CHOOSE r \in found : TRUE).data)
     IN /\ cached_data' = [cached_data EXCEPT ![t] = value]
        /\ trace' = [trace EXCEPT ![t] =
                       Append(@, Event("select", IF found = {} THEN "none" ELSE "row"))]
        /\ resp' = [resp EXCEPT ![t] =
                      IF Truthy(value) THEN Response(200, "cache", value) ELSE @]
  /\ pc' = [pc EXCEPT ![t] = "call_api"]
  /\ conn' = [conn EXCEPT ![t] = FALSE]
  /\ UNCHANGED <<rows, locals, api_data, history, startup, now>>

\* check_cache, lines 89-102 and the handler's lines 197-206: the SELECT
\* returns the row's data or no row, the connection is closed, and a truthy
\* value is answered from the cache
CheckCacheSelect(t) ==
  /\ pc[t] = "select"
  /\ conn[t]
  /\ LET found == RowsOf(cache_key[t])
         value == IF found = {} THEN PyNone
                  ELSE json_loads((CHOOSE r \in found : TRUE).data)
     IN /\ cached_data' = [cached_data EXCEPT ![t] = value]
        /\ trace' = [trace EXCEPT ![t] =
                       Append(@, Event("select", IF found = {} THEN "none" ELSE "row"))]
        /\ IF Truthy(value)
           THEN /\ resp' = [resp EXCEPT ![t] = Response(200, "cache", value)]
                /\ pc' = [pc EXCEPT ![t] = "done"]
           ELSE /\ pc' = [pc EXCEPT ![t] = "call_api"]
                /\ UNCHANGED resp
  /\ conn' = [conn EXCEPT ![t] = FALSE]
  /\ UNCHANGED <<rows, locals, api_data, history, startup, now>>

\* check_cache without its finally clause: the exception leaves with the
\* connection open
CheckCacheRaise_NoFinally(t) ==
  /\ pc[t] = "select"
  /\ conn[t]
  /\ trace' = [trace EXCEPT ![t] = Append(@, Event("select", "raise"))]
  /\ resp' = [resp EXCEPT ![t] = Response(500, "none", PyNone)]
  /\ pc' = [pc EXCEPT ![t] = "done"]
  /\ UNCHANGED <<rows, locals, cached_data, api_data, conn, history, startup, now>>

\* check_cache, lines 89-102: cursor() or execute() raises; the finally clause
\* closes the connection and, with no except clause, the exception leaves
\* check_cache and the handler: the framework answers 500
CheckCacheRaise(t) ==
  /\ pc[t] = "select"
  /\ conn[t]
  /\ conn' = [conn EXCEPT ![t] = FALSE]
  /\ trace' = [trace EXCEPT ![t] = Append(@, Event("select", "raise"))]
  /\ resp' = [resp EXCEPT ![t] = Response(500, "none", PyNone)]
  /\ pc' = [pc EXCEPT ![t] = "done"]
  /\ UNCHANGED <<rows, locals, cached_data, api_data, history, startup, now>>

\* the handler testing "api_data is not None" where it tests truthiness: an
\* empty list is saved and answered like a non-empty one
AfterProvider_CachesEmpty(t, v) ==
  IF v = PyNone
  THEN /\ resp' = [resp EXCEPT ![t] = Response(503, "apify_api", PyNone)]
       /\ pc' = [pc EXCEPT ![t] = "done"]
  ELSE /\ pc' = [pc EXCEPT ![t] = "save_to_cache"]
       /\ UNCHANGED resp

\* the handler's lines 209-229 after call_apify_api returned v
AfterProvider(t, v) ==
  IF v = PyNone
  THEN /\ resp' = [resp EXCEPT ![t] = Response(503, "apify_api", PyNone)]
       /\ pc' = [pc EXCEPT ![t] = "done"]
  ELSE IF Truthy(v)
  THEN /\ pc' = [pc EXCEPT ![t] = "save_to_cache"]
       /\ UNCHANGED resp
  ELSE /\ resp' = [resp EXCEPT ![t] = Response(404, "apify_api", PyNone)]
       /\ pc' = [pc EXCEPT ![t] = "done"]

\* a handler that shares the fetch of an in-flight request for the same key
\* where it has one, and calls the actor itself otherwise
CallApify_Coalesces(t) ==
  /\ pc[t] = "call_api"
  /\ LET inflight == {u \in Threads \ {t} :
                        /\ pc[u] \in {"save_to_cache", "upsert"}
                        /\ cache_key[u] = cache_key[t]}
     IN IF inflight # {}
        THEN /\ api_data' = [api_data EXCEPT ![t] =
                               api_data[CHOOSE u \in inflight : TRUE]]
             /\ AfterProvider(t, api_data[CHOOSE u \in inflight : TRUE])
             /\ UNCHANGED trace
        ELSE \E o \in ProviderOutcomes :
               /\ api_data' = [api_data EXCEPT ![t] = call_apify_api(o)]
               /\ AfterProvider(t, call_apify_api(o))
               /\ trace' = [trace EXCEPT ![t] =
                              Append(@, [op |-> "provider", res |-> o.kind,
                                         items |-> o.items])]
  /\ UNCHANGED <<rows, locals, cached_data, conn, history, startup, now>>

\* the handler's line 209 and call_apify_api: one blocking call of the actor
CallApify(t) ==
  /\ pc[t] = "call_api"
  /\ \E o \in ProviderOutcomes :
       /\ api_data' = [api_data EXCEPT ![t] = call_apify_api(o)]
       /\ AfterProvider(t, call_apify_api(o))
       /\ trace' = [trace EXCEPT ![t] =
                      Append(@, [op |-> "provider", res |-> o.kind, items |-> o.items])]
  /\ UNCHANGED <<rows, locals, cached_data, conn, history, startup, now>>

\* the handler's lines 218-223: the provider's data is answered
AnswerFromProvider(t) ==
  /\ resp' = [resp EXCEPT ![t] = Response(200, "apify_api", api_data[t])]
  /\ pc' = [pc EXCEPT ![t] = "done"]

\* save_to_cache, lines 106-108: the connection is opened, or the function
\* returns without writing
SaveConnect(t) ==
  /\ pc[t] = "save_to_cache"
  /\ \E ok \in get_db_connection :
       IF ok
       THEN /\ conn' = [conn EXCEPT ![t] = TRUE]
            /\ pc' = [pc EXCEPT ![t] = "upsert"]
            /\ trace' = [trace EXCEPT ![t] = Append(@, Event("connect", "ok"))]
            /\ UNCHANGED resp
       ELSE /\ AnswerFromProvider(t)
            /\ trace' = [trace EXCEPT ![t] = Append(@, Event("connect", "fail"))]
            /\ UNCHANGED conn
  /\ UNCHANGED <<rows, locals, cached_data, api_data, history, startup, now>>

\* ON CONFLICT (cache_key) DO NOTHING: the row a key already has is kept
Upsert_FirstWriteWins(table, k, v, ts) ==
  IF \E r \in table : r.cache_key = k THEN table
  ELSE table \cup {[cache_key |-> k, data |-> json_dumps(v),
                     retrieved_at |-> ts, payload |-> v]}

\* DO UPDATE SET data = EXCLUDED.data alone: the row a key already has keeps
\* its retrieved_at
Upsert_KeepsTimestamp(table, k, v, ts) ==
  {r \in table : r.cache_key # k}
    \cup {[cache_key |-> k, data |-> json_dumps(v),
            retrieved_at |-> IF \E r \in table : r.cache_key = k
                             THEN (CHOOSE r \in table : r.cache_key = k).retrieved_at
                             ELSE ts,
            payload |-> v]}

\* the table rewritten on every save: the rows of the other keys are lost
Upsert_ReplacesTable(table, k, v, ts) ==
  {[cache_key |-> k, data |-> json_dumps(v), retrieved_at |-> ts, payload |-> v]}

\* the upsert without conn.commit(): the table stays as it was
Upsert_NoCommit(table, k, v, ts) == table

\* INSERT ... ON CONFLICT (cache_key) DO UPDATE SET data = EXCLUDED.data,
\* retrieved_at = CURRENT_TIMESTAMP on the table of lines 58-66: the row of
\* key k is inserted (retrieved_at DEFAULT CURRENT_TIMESTAMP) or replaced, with
\* the clock reading ts (payload records the value dumped)
Upsert(table, k, v, ts) ==
  {r \in table : r.cache_key # k}
    \cup {[cache_key |-> k, data |-> json_dumps(v), retrieved_at |-> ts,
            payload |-> v]}

\* save_to_cache, lines 110-128: the upsert commits and the connection is
\* closed; the handler answers the provider's data
SaveCommit(t) ==
  /\ pc[t] = "upsert"
  /\ conn[t]
  /\ rows' = Upsert(rows, cache_key[t], api_data[t], now)
  /\ conn' = [conn EXCEPT ![t] = FALSE]
  /\ trace' = [trace EXCEPT ![t] = Append(@, Event("upsert", "commit"))]
  /\ written' = [u \in Threads |->
                   IF u = t THEN FALSE
                   ELSE IF pc[u] # "idle" /\ cache_key[u] = cache_key[t] THEN TRUE
                   ELSE written[u]]
  /\ AnswerFromProvider(t)
  /\ UNCHANGED <<locals, cached_data, api_data, after, startup, now>>

\* save_to_cache without its except clause: the exception leaves the handler
SaveRaise_Propagates(t) ==
  /\ pc[t] = "upsert"
  /\ conn[t]
  /\ conn' = [conn EXCEPT ![t] = FALSE]
  /\ trace' = [trace EXCEPT ![t] = Append(@, Event("upsert", "raise"))]
  /\ resp' = [resp EXCEPT ![t] = Response(500, "none", PyNone)]
  /\ pc' = [pc EXCEPT ![t] = "done"]
  /\ UNCHANGED <<rows, locals, cached_data, api_data, history, startup, now>>

\* save_to_cache, lines 110-128: cursor(), execute() or commit() raises; the
\* exception is printed, the connection is closed and nothing is written
SaveRaise(t) ==
  /\ pc[t] = "upsert"
  /\ conn[t]
  /\ conn' = [conn EXCEPT ![t] = FALSE]
  /\ trace' = [trace EXCEPT ![t] = Append(@, Event("upsert", "raise"))]
  /\ AnswerFromProvider(t)
  /\ UNCHANGED <<rows, locals, cached_data, api_data, history, startup, now>>

\* the steps of a request after its validation
Serve(t) ==
  \/ CheckCacheConnect(t)
  \/ CheckCacheSelect(t)
  \/ CheckCacheRaise(t)
  \/ CallApify(t)
  \/ SaveConnect(t)
  \/ SaveCommit(t)
  \/ SaveRaise(t)

\* no step of Next reads the clock but the upsert, which stamps the row: the
\* behaviours of Spec are those within one reading of the clock
Next ==
  \/ InitializeDbConnect
  \/ InitializeDbCreate
  \/ \E t \in Threads :
       \/ \E q \in Queries : Validate(t, q)
       \/ Serve(t)

Spec == Init /\ [][Next]_vars

(***************************************************************************)
(* The service while time passes, over the queries of one key              *)
(***************************************************************************)
\* the database clock advances
Tick ==
  /\ now < MaxClock
  /\ now' = now + 1
  /\ UNCHANGED <<rows, pc, locals, cached_data, api_data, conn, resp, trace,
                 history, startup>>

TimeQueries ==
  { <<Given(AUDI), Given(A4), Given(Y2020)>>,
    <<Given(AUDI), Given(<<>>), Given(Y2020)>> }

NextTime ==
  \/ InitializeDbConnect
  \/ InitializeDbCreate
  \/ Tick
  \/ \E t \in Threads :
       \/ \E q \in TimeQueries : Validate(t, q)
       \/ Serve(t)

SpecTime == Init /\ [][NextTime]_vars

(***************************************************************************)
(* Key derivation alone, over a wider set of query strings                 *)
(***************************************************************************)
SpAudi == <<" ", "a", "u", "d", "i">>
A4Sp == <<"a", "4", " ">>
SpY2020 == <<" ", "2", "0", "2", "0">>
Y2_020 == <<"2", "_", "0", "2", "0">>

KeyMakes == {Given(<<>>), Given(AUDI), Given(AudiSp), Given(SpAudi)}
KeyModels == {Missing, Given(A4), Given(SpA4), Given(A4Sp)}
KeyYears ==
  {Given(<<>>), Given(Y2020), Given(PlusY2020), Given(SpY2020), Given(Y2_020),
   Given(NotANumber)}

\* a make of whitespace only, and makes and models with an underscore in them
Blank == <<" ">>
MakeA == <<"A">>
MakeA_U == <<"A", "_", "U">>
ModelU_4 == <<"U", "_", "4">>
Model4 == <<"4">>

KeyQueries ==
  (KeyMakes \X KeyModels \X KeyYears)
    \cup { <<Given(Blank), Given(A4), Given(Y2020)>>,
           <<Given(MakeA), Given(ModelU_4), Given(Y2020)>>,
           <<Given(MakeA_U), Given(Model4), Given(Y2020)>> }

\* the handler's lines 181-194 on each of the key queries
NextKey ==
  \/ InitializeDbConnect
  \/ InitializeDbCreate
  \/ \E t \in Threads : \E q \in KeyQueries : Validate(t, q)

SpecKey == Init /\ [][NextKey]_vars

(***************************************************************************)
(* Vocabulary of the properties                                            *)
(***************************************************************************)
Done(t) == pc[t] = "done"

\* the request of t has an entry (op, res) in its history
Has(t, op, res) ==
  \E i \in 1..Len(trace[t]) : trace[t][i].op = op /\ trace[t][i].res = res

\* the number of entries of operation op in the history of t's request
Count(t, op) == Cardinality({i \in 1..Len(trace[t]) : trace[t][i].op = op})

CalledProvider(t) == Count(t, "provider") > 0

\* the request of u had ended before the request of t began
Later(t, u) == u \in after[t]

\* the request of t ended in the Populated outcome: the provider's non-empty
\* payload was answered
Populated(t) ==
  Done(t) /\ resp[t].status = 200 /\ resp[t].source = "apify_api"

\* the store read of t's request returned (a row or no row)
ReadReturned(t) == Has(t, "select", "row") \/ Has(t, "select", "none")

\* the store read of t's request failed: no connection, or the SELECT raised
ReadFailed(t) ==
  \/ trace[t] # <<>> /\ trace[t][1] = Event("connect", "fail")
  \/ Has(t, "select", "raise")

(***************************************************************************)
(* C1                                                                      *)
(***************************************************************************)
\* C1 as stated: once a request for key K has ended Populated with payload P,
\* every later request for K, as long as no write has overwritten the entry
\* since, ends in a cache hit carrying exactly P.  (A later request whose
\* SELECT raised is the subject of C6 and is left out here.)
C1_AsStated ==
  \A t \in Threads : \A u \in Threads :
    (Done(t) /\ Later(t, u) /\ Populated(u) /\ cache_key[t] = cache_key[u]
       /\ ~written[u] /\ ~Has(t, "select", "raise"))
      => resp[t] = Response(200, "cache", resp[u].data)

\* C1 (amended): once a request for key K has committed its upsert of payload
\* P, every later request for K whose store read returns, as long as no write
\* has overwritten the entry since, ends in a cache hit carrying exactly P.
C1_CacheIdempotence ==
  \A t \in Threads : \A u \in Threads :
    (Done(t) /\ Later(t, u) /\ Populated(u) /\ Has(u, "upsert", "commit")
       /\ cache_key[t] = cache_key[u] /\ ~written[u] /\ ReadReturned(t))
      => resp[t] = Response(200, "cache", resp[u].data)

C1_Witness ==
  \E t \in Threads : \E u \in Threads :
    /\ Done(t) /\ Later(t, u) /\ Populated(u) /\ Has(u, "upsert", "commit")
    /\ cache_key[t] = cache_key[u] /\ ~written[u] /\ ReadReturned(t)
    /\ QueryOf(t) # QueryOf(u)
    /\ resp[t].source = "cache"

(***************************************************************************)
(* C2                                                                      *)
(***************************************************************************)
\* a request whose store read returned a row never calls the provider and is
\* answered 200 from the cache with what the read returned
C2_NoProviderOnHit ==
  \A t \in Threads :
    Has(t, "select", "row") =>
      /\ Done(t)
      /\ ~CalledProvider(t)
      /\ resp[t] = Response(200, "cache", cached_data[t])

\* the step in which the read returns a row answers the payload stored in it
C2_AnswersStoredPayload ==
  \A t \in Threads :
    (pc[t] = "select" /\ pc'[t] # "select" /\ Has(t, "select", "row")')
      => \E r \in RowsOf(cache_key[t]) :
           resp'[t] = Response(200, "cache", r.payload)

\* C2: a cache hit is terminal: in any request whose store read returns a
\* present entry for the derived key, the provider is never invoked and the
\* response carries the stored payload tagged source=cache.
C2_HitIsTerminal == []C2_NoProviderOnHit /\ [][C2_AnswersStoredPayload]_vars

C2_Witness ==
  \E t \in Threads : Has(t, "select", "row") /\ resp[t].source = "cache"

(***************************************************************************)
(* C3                                                                      *)
(***************************************************************************)
\* the provider's entry in the history of t's request, as a set of at most one
ProviderEvents(t) ==
  {trace[t][i] : i \in {j \in 1..Len(trace[t]) : trace[t][j].op = "provider"}}

\* the provider answered t's request with an empty list (no dataset, or an
\* empty one)
ProviderEmpty(t) ==
  \E e \in ProviderEvents(t) :
    e.res = "no_dataset" \/ (e.res = "items" /\ e.items = <<>>)

\* the provider answered t's request with the non-empty list p
ProviderGave(t, p) ==
  \E e \in ProviderEvents(t) : e.res = "items" /\ e.items = p /\ p # <<>>

\* the provider call of t's request raised
ProviderRaised(t) == \E e \in ProviderEvents(t) : e.res = "raise"

\* a request answered with an empty list makes no store write: it ends with
\* the provider call
C3_NoWriteOfEmpty ==
  \A u \in Threads :
    ProviderEmpty(u) =>
      /\ Done(u)
      /\ Count(u, "upsert") = 0
      /\ trace[u][Len(trace[u])].op = "provider"

\* C3 as stated: when the provider returns an empty list for a request, that
\* request performs no store write, and a subsequent identical request (no
\* request populating the key in between) again misses the cache and calls the
\* provider again.  (A subsequent request whose SELECT raised is the subject
\* of C6 and is left out here.)
C3_AsStated ==
  /\ C3_NoWriteOfEmpty
  /\ \A t \in Threads : \A u \in Threads :
       (Done(t) /\ Later(t, u) /\ ProviderEmpty(u) /\ QueryOf(t) = QueryOf(u)
          /\ ~written[u] /\ ~Has(t, "select", "raise"))
         => ~Has(t, "select", "row") /\ CalledProvider(t)

\* C3 (amended): when the provider returns an empty list for a request, that
\* request performs no store write; if its own store read had found no row, a
\* subsequent identical request (no request writing the key in between) never
\* ends in a cache hit: it calls the provider again, or its SELECT raises and
\* it ends in an unhandled error.
C3_EmptyNotCached ==
  /\ C3_NoWriteOfEmpty
  /\ \A t \in Threads : \A u \in Threads :
       (Done(t) /\ Later(t, u) /\ ProviderEmpty(u) /\ QueryOf(t) = QueryOf(u)
          /\ ~written[u] /\ Has(u, "select", "none"))
         => /\ ~Has(t, "select", "row")
            /\ resp[t].source # "cache"
            /\ CalledProvider(t) \/ Has(t, "select", "raise")

C3_Witness ==
  \E t \in Threads : \E u \in Threads :
    /\ Done(t) /\ Later(t, u) /\ ProviderEmpty(u) /\ QueryOf(t) = QueryOf(u)
    /\ ~written[u] /\ Has(u, "select", "none")
    /\ Has(t, "select", "none") /\ CalledProvider(t)

InvalidQuery(q) ==
  \/ \E i \in 1..3 : ~q[i].given \/ q[i].s = <<>>
  \/ ~IntParses(q[3].s)

\* C5: a request with a missing or empty make, model or year, or whose year
\* does not parse as an integer, ends in InvalidQuery (400) without any store
\* read, store write or provider call.
C5_ValidationShortCircuits ==
  \A t \in Threads :
    (pc[t] # "idle" /\ InvalidQuery(QueryOf(t))) =>
      /\ Done(t)
      /\ resp[t] = Response(400, "none", PyNone)
      /\ trace[t] = <<>>
      /\ ~conn[t]

C5_Witness ==
  \E t \in Threads :
    /\ Done(t) /\ resp[t].status = 400
    /\ year_str[t] = Given(NotANumber)
    /\ rows # {}

(***************************************************************************)
(* C6                                                                      *)
(***************************************************************************)
\* C6: whenever the store read of a valid request fails (the connection cannot
\* be opened, or the read itself fails), the request is treated as a cache
\* miss and proceeds to call the provider; it never ends in a failure caused
\* by the store read.
C6_FailOpenOnRead ==
  \A t \in Threads :
    ReadFailed(t) =>
      /\ pc[t] = "call_api" \/ CalledProvider(t)
      /\ resp[t].status # 500

(***************************************************************************)
(* C7                                                                      *)
(***************************************************************************)
\* the store write of t's request failed: no connection, or the upsert raised
WriteFailed(t) ==
  /\ CalledProvider(t)
  /\ \/ trace[t][Len(trace[t])] = Event("connect", "fail")
     \/ Has(t, "upsert", "raise")

\* C7: when the provider returns a non-empty payload P and the store write
\* fails, the request still ends with a 200 response tagged source=apify_api
\* carrying exactly P.
C7_BestEffortWrite ==
  \A t \in Threads : \A p \in Datasets :
    (ProviderGave(t, p) /\ WriteFailed(t)) =>
      /\ Done(t)
      /\ resp[t] = Response(200, "apify_api", PyList(p))

C7_Witness ==
  \E t \in Threads : \E p \in Datasets :
    /\ ProviderGave(t, p) /\ Has(t, "upsert", "raise")
    /\ resp[t] = Response(200, "apify_api", PyList(p))
    /\ RowsOf(cache_key[t]) = {}

(***************************************************************************)
(* C8                                                                      *)
(***************************************************************************)
\* the response the table gives for the finished request of t
TableRow(t) ==
  \/ /\ InvalidQuery(QueryOf(t))
     /\ resp[t] = Response(400, "none", PyNone)
  \/ /\ ~InvalidQuery(QueryOf(t))
     /\ Has(t, "select", "row")
     /\ resp[t] = Response(200, "cache", cached_data[t])
  \/ /\ ~InvalidQuery(QueryOf(t))
     /\ ~Has(t, "select", "row")
     /\ \/ \E p \in Datasets :
             ProviderGave(t, p) /\ resp[t] = Response(200, "apify_api", PyList(p))
        \/ ProviderEmpty(t) /\ resp[t] = Response(404, "apify_api", PyNone)
        \/ ProviderRaised(t) /\ resp[t] = Response(503, "apify_api", PyNone)

\* C8: the response of every request is the function of (validation result,
\* store read result, provider outcome) given by the response table; a
\* response to a valid request is tagged source=cache exactly when the
\* provider was not called in that request.
C8_ResponseTable ==
  \A t \in Threads :
    Done(t) =>
      /\ TableRow(t)
      /\ ~InvalidQuery(QueryOf(t)) =>
           (resp[t].source = "cache" <=> ~CalledProvider(t))

(***************************************************************************)
(* C9                                                                      *)
(***************************************************************************)
\* UPPER(TRIM(make)) + "_" + UPPER(TRIM(model)) + "_" + the year as given
DerivedKey(mk, md, yr) ==
  Upper(Strip(mk)) \o <<"_">> \o Upper(Strip(md)) \o <<"_">> \o yr

\* the request of t passed validation and its key was derived
Derived(t) == pc[t] \notin {"idle", "done"} \/ (Done(t) /\ resp[t].status # 400)

\* C9: the derived cache key equals UPPER(TRIM(make)) + "_" +
\* UPPER(TRIM(model)) + "_" + the year literal as given, so two valid queries
\* that agree after trimming and case-folding of make and model and have the
\* same year literal get the same key, as derive("Audi ", " a4", "2020") and
\* derive("AUDI", "A4", "2020") do; derivation leaves the store as it is.
C9_KeyDeterminism ==
  /\ \A t \in Threads :
       Derived(t) => cache_key[t] = DerivedKey(make[t].s, model[t].s, year_str[t].s)
  /\ \A t \in Threads : \A u \in Threads :
       (/\ Derived(t) /\ Derived(u)
        /\ Upper(Strip(make[t].s)) = Upper(Strip(make[u].s))
        /\ Upper(Strip(model[t].s)) = Upper(Strip(model[u].s))
        /\ year_str[t] = year_str[u])
         => cache_key[t] = cache_key[u]
  /\ create_cache_key(AudiSp, SpA4, Y2020) = create_cache_key(AUDI, A4, Y2020)
  /\ rows = {}

C9_Witness ==
  \E t \in Threads : \E u \in Threads :
    /\ Derived(t) /\ Derived(u)
    /\ make[t] = Given(AudiSp) /\ model[t] = Given(SpA4)
    /\ make[u] = Given(AUDI) /\ model[u] = Given(A4)
    /\ year_str[t] = Given(SpY2020) /\ year_str[u] = Given(SpY2020)
    /\ cache_key[t] = cache_key[u]

(***************************************************************************)
(* C10                                                                     *)
(***************************************************************************)
AudiA4_2020 == <<Given(AUDI), Given(A4), Given(Y2020)>>
KeyAudiA4_2020 == <<"A", "U", "D", "I", "_", "A", "4", "_", "2", "0", "2", "0">>

\* the request of t ran with the store and the provider working and the
\* provider listing the non-empty dataset p: missed, fetched p, committed it
PopulatedWith(t, p) ==
  /\ p # <<>>
  /\ trace[t] = << Event("connect", "ok"), Event("select", "none"),
                   [op |-> "provider", res |-> "items", items |-> p],
                   Event("connect", "ok"), Event("upsert", "commit") >>

\* from an empty store, the commit of the request (AUDI, A4, "2020") leaves
\* exactly the row of key "AUDI_A4_2020" with payload P and answers P
C10_FirstRequest ==
  \A t \in Threads :
    (/\ rows = {}
     /\ QueryOf(t) = AudiA4_2020
     /\ pc[t] = "upsert" /\ pc'[t] = "done"
     /\ \E p \in Datasets : PopulatedWith(t, p)')
      => /\ rows' = {[cache_key |-> KeyAudiA4_2020,
                      data |-> json_dumps(api_data[t]),
                      retrieved_at |-> now,
                      payload |-> api_data[t]]}
         /\ PopulatedWith(t, api_data[t].items)'
         /\ resp'[t] = Response(200, "apify_api", api_data[t])

\* a second identical request, run with the store working after the first
\* one ended, is answered P from the cache without any provider call
C10_SecondRequest ==
  \A t \in Threads : \A u \in Threads : \A p \in Datasets :
    (/\ Done(t) /\ Later(t, u) /\ Done(u)
     /\ QueryOf(u) = AudiA4_2020 /\ QueryOf(t) = AudiA4_2020
     /\ PopulatedWith(u, p) /\ ~written[u]
     /\ ReadReturned(t))
      => /\ resp[t] = Response(200, "cache", PyList(p))
         /\ Count(t, "provider") = 0

\* C10: starting from an empty store, a request (AUDI, A4, "2020") for which
\* the provider returns the non-empty payload P makes the store gain exactly
\* one entry with key "AUDI_A4_2020" and payload P and answers 200 with
\* source=apify_api and data=P; a second identical request then answers 200
\* with source=cache and data=P and makes zero provider calls.
C10_EndToEnd == [][C10_FirstRequest]_vars /\ []C10_SecondRequest

C10_Witness ==
  \E t \in Threads : \E u \in Threads : \E p \in Datasets :
    /\ Done(t) /\ Later(t, u) /\ Done(u)
    /\ QueryOf(u) = AudiA4_2020 /\ QueryOf(t) = AudiA4_2020
    /\ PopulatedWith(u, p) /\ ~written[u]
    /\ rows = {[cache_key |-> KeyAudiA4_2020, data |-> json_dumps(PyList(p)),
                retrieved_at |-> now, payload |-> PyList(p)]}
    /\ resp[u] = Response(200, "apify_api", PyList(p))
    /\ resp[t] = Response(200, "cache", PyList(p))
    /\ trace[t] = <<Event("connect", "ok"), Event("select", "row")>>

(***************************************************************************)
(* C11                                                                     *)
(***************************************************************************)
\* the store read, provider call and store write of t's request, in the order
\* they ran (the connection attempts left out)
Operations(t) == SelectSeq(trace[t], LAMBDA e : e.op # "connect")

\* the place of an operation in the order read, provider call, write
OpRank(op) ==
  CASE op = "select" -> 1
    [] op = "provider" -> 2
    [] op = "upsert" -> 3

\* at most one store read, one provider call and one store write, in that
\* order, each behind at most one connection attempt
InOrder(t) ==
  /\ \A i \in 1..Len(Operations(t)) : \A j \in 1..Len(Operations(t)) :
       i < j => OpRank(Operations(t)[i].op) < OpRank(Operations(t)[j].op)
  /\ Count(t, "connect") <= 2

\* the outcome a finished request ended in, by its response
Outcome(t) ==
  CASE resp[t].status = 400 -> "Invalid"
    [] resp[t].status = 200 /\ resp[t].source = "cache" -> "CacheHit"
    [] resp[t].status = 503 -> "ProviderError"
    [] resp[t].status = 404 -> "EmptyResult"
    [] resp[t].status = 200 /\ resp[t].source = "apify_api" -> "Populated"
    [] OTHER -> "UnhandledError"

TerminalOutcomes ==
  {"Invalid", "CacheHit", "ProviderError", "EmptyResult", "Populated"}

\* C11: every request makes at most one store read, at most one provider call
\* and at most one store write, in that order, and the outcome it ends in is
\* one of Invalid, CacheHit, ProviderError, EmptyResult and Populated.
C11_TerminalOutcome ==
  \A t \in Threads :
    /\ InOrder(t)
    /\ Done(t) => Outcome(t) \in TerminalOutcomes

(***************************************************************************)
(* C12                                                                     *)
(***************************************************************************)
\* the requests of t and u overlapped: neither had ended when the other began
Concurrent(t, u) == t # u /\ ~Later(t, u) /\ ~Later(u, t)

\* the requests of t and u missed on the same key, were given the non-empty
\* payloads p and q, and both committed their upsert
BothUpserted(t, u, p, q) ==
  /\ Concurrent(t, u) /\ Done(t) /\ Done(u)
  /\ cache_key[t] = cache_key[u]
  /\ ~Has(t, "select", "row") /\ ~Has(u, "select", "row")
  /\ ProviderGave(t, p) /\ ProviderGave(u, q)
  /\ Has(t, "upsert", "commit") /\ Has(u, "upsert", "commit")

\* the step in which a request commits leaves exactly one row of its key, and
\* the row holds the payload of that request
C12_CommitReplaces ==
  \A t \in Threads :
    (pc[t] = "upsert" /\ Has(t, "upsert", "commit")') =>
      \E r \in rows' :
        /\ RowsOf(cache_key[t])' = {r}
        /\ r.payload = api_data[t]
        /\ json_loads(r.data) = api_data[t]

\* after both requests have finished, the key has exactly one row, the row
\* holds the payload of the request that committed last (the one whose row no
\* other request has overwritten), and each request answered its own payload
C12_AfterBoth ==
  \A t \in Threads : \A u \in Threads : \A p \in Datasets : \A q \in Datasets :
    (BothUpserted(t, u, p, q) /\ ~written[u]) =>
      /\ written[t]
      /\ \E r \in rows :
           /\ RowsOf(cache_key[u]) = {r}
           /\ r.payload = PyList(q)
           /\ json_loads(r.data) = PyList(q)
      /\ resp[t] = Response(200, "apify_api", PyList(p))
      /\ resp[u] = Response(200, "apify_api", PyList(q))

\* C12: last write wins under the same-key race: when two concurrent requests
\* for the same key both miss, both receive non-empty provider payloads and
\* both upsert, then after both finish the store holds exactly one entry for
\* that key, whose payload is the payload of whichever upsert committed last,
\* and each request returns its own provider payload.
C12_LastWriteWins == [][C12_CommitReplaces]_vars /\ []C12_AfterBoth

C12_Witness ==
  \E t \in Threads : \E u \in Threads : \E p \in Datasets : \E q \in Datasets :
    /\ BothUpserted(t, u, p, q) /\ ~written[u] /\ written[t]
    /\ p # q
    /\ Has(t, "select", "none") /\ Has(u, "select", "none")
    /\ \E r \in rows : RowsOf(cache_key[u]) = {r} /\ r.payload = PyList(q)
    /\ resp[t].data = PyList(p)

(***************************************************************************)
(* C13                                                                     *)
(***************************************************************************)
\* the store read of t's request found no row, or the store was unavailable
ObservedMiss(t) == Has(t, "select", "none") \/ ReadFailed(t)

\* the request of t is past the handler's line 209, the provider call
PassedFetch(t) ==
  \/ pc[t] \in {"save_to_cache", "upsert"}
  \/ Done(t) /\ resp[t].source = "apify_api"

\* the provider calls made by the requests the threads are serving or served
\* last
ProviderCalls ==
  Cardinality({x \in UNION {{<<t, i>> : i \in 1..Len(trace[t])} : t \in Threads} :
                 trace[x[1]][x[2]].op = "provider"})

\* C13: no request coalescing: each request whose own store read observed a
\* miss makes its own provider call, so the number of provider calls equals
\* the number of valid requests that observed a miss (or an unavailable
\* store) and have passed the fetch step, whatever the other requests in
\* flight for the same key do.
C13_NoCoalescing ==
  /\ \A t \in Threads :
       (Has(t, "select", "none") \/ Has(t, "connect", "fail")) =>
         \/ pc[t] = "call_api" /\ Count(t, "provider") = 0
         \/ Count(t, "provider") = 1
  /\ ProviderCalls =
       Cardinality({t \in Threads : ObservedMiss(t) /\ PassedFetch(t)})

C13_Witness ==
  \E t \in Threads : \E u \in Threads :
    /\ Concurrent(t, u) /\ cache_key[t] = cache_key[u]
    /\ Has(t, "select", "none") /\ Has(u, "select", "none")
    /\ PassedFetch(t) /\ PassedFetch(u)
    /\ pc[u] = "upsert" /\ Done(t)
    /\ ProviderCalls = 2

(***************************************************************************)
(* C14                                                                     *)
(***************************************************************************)
\* the tabled outcomes: 400, 200 cache, 200 apify_api, 404 and 503
TabledResponse(r) ==
  \/ r.status = 400
  \/ r.status = 200 /\ r.source \in {"cache", "apify_api"}
  \/ r.status = 404 /\ r.source = "apify_api"
  \/ r.status = 503 /\ r.source = "apify_api"

\* a store or provider operation of t's request failed
SomethingFailed(t) ==
  \/ Has(t, "connect", "fail")
  \/ Has(t, "select", "raise")
  \/ Has(t, "upsert", "raise")
  \/ ProviderRaised(t)

\* C14: for every request and every failure of the store (on connect, on
\* read, on write) or of the provider, the request ends in one of the tabled
\* outcomes (400, 200 cache, 200 apify_api, 404, 503) and never in an
\* unhandled error escaping to the HTTP layer.
C14_FailuresRecovered ==
  \A t \in Threads :
    (Done(t) /\ SomethingFailed(t)) =>
      /\ TabledResponse(resp[t])
      /\ resp[t].status # 500

(***************************************************************************)
(* C15                                                                     *)
(***************************************************************************)
\* the request of t committed its upsert
Committed(t) == Has(t, "upsert", "commit")

\* the step in which the put of t's request commits, whether or not the key
\* had a row: the key has exactly one row, the row holds the payload put and
\* reads back as it, and its retrieved_at is the time of the write, not
\* earlier than the one it replaces
C15_PutReplaces ==
  \A t \in Threads :
    (pc[t] = "upsert" /\ Committed(t)') =>
      \E r \in rows' :
        /\ RowsOf(cache_key[t])' = {r}
        /\ r.payload = api_data[t]
        /\ json_loads(r.data) = api_data[t]
        /\ r.retrieved_at = now
        /\ \A old \in RowsOf(cache_key[t]) : old.retrieved_at <= r.retrieved_at

\* in no step does the retrieved_at of a key decrease
C15_NeverDecreases ==
  \A old \in rows :
    \E r \in rows' :
      r.cache_key = old.cache_key /\ r.retrieved_at >= old.retrieved_at

\* a get of the key that returns after the put, with no other write of the
\* key in between, returns the payload put
C15_GetReturnsPut ==
  \A t \in Threads : \A u \in Threads :
    (/\ Later(t, u) /\ Committed(u) /\ ~written[u]
     /\ cache_key[t] = cache_key[u] /\ ReadReturned(t))
      => Has(t, "select", "row") /\ cached_data[t] = api_data[u]

StoredKeys == {r.cache_key : r \in rows}

\* a step that changes the table is the commit of a request that ends
\* Populated, and it changes the row of that request's key alone
C16_OnlyPopulatedWrites ==
  rows' # rows =>
    \E t \in Threads :
      /\ pc[t] = "upsert" /\ Populated(t)' /\ Committed(t)'
      /\ \A r \in rows : r.cache_key # cache_key[t] => r \in rows'
      /\ \A r \in rows' : r.cache_key # cache_key[t] => r \in rows

\* a step in which a request ends Invalid, CacheHit, ProviderError or
\* EmptyResult leaves every row as it is, retrieved_at included
C16_OtherOutcomesWriteNothing ==
  \A t \in Threads :
    (~Done(t) /\ Done(t)'
       /\ Outcome(t)' \in {"Invalid", "CacheHit", "ProviderError", "EmptyResult"})
      => rows' = rows

\* a request that ended in one of those outcomes made no write at all
C16_NoWriteInHistory ==
  \A t \in Threads :
    (Done(t) /\ Outcome(t) \in {"Invalid", "CacheHit", "ProviderError", "EmptyResult"})
      => Count(t, "upsert") = 0

\* no step removes a row's key
C16_KeysOnlyGrow == StoredKeys \subseteq StoredKeys'

\* C16: the store changes only on the Populated path and only at the
\* request's own key: requests ending in Invalid, CacheHit (including its
\* retrieved_at), ProviderError or EmptyResult leave every entry unchanged, a
\* Populated request leaves the entries of all other keys unchanged, and no
\* operation ever removes an entry (the set of stored keys only grows).
C16_FrameEffect ==
  /\ [][C16_OnlyPopulatedWrites]_vars
  /\ [][C16_OtherOutcomesWriteNothing]_vars
  /\ [][C16_KeysOnlyGrow]_vars
  /\ []C16_NoWriteInHistory

\* a request populated one key while the row of another key stayed, and a
\* request for that other key ended in a cache hit
C16_Witness ==
  \E t \in Threads : \E u \in Threads :
    /\ Done(t) /\ Populated(t) /\ Committed(t) /\ ~written[t]
    /\ Done(u) /\ Outcome(u) = "CacheHit"
    /\ cache_key[t] # cache_key[u]
    /\ Cardinality(StoredKeys) = 2
    /\ \E r \in RowsOf(cache_key[u]) : r.payload = cached_data[u]

(***************************************************************************)
(* C17                                                                     *)
(***************************************************************************)
\* a thread holds a connection only between the connect and the return of
\* check_cache or save_to_cache: none while the provider is called, none once
\* the request has ended; initialize_db holds one only until it returns
C17_HeldInsideOperation ==
  /\ \A t \in Threads :
       /\ conn[t] => pc[t] \in {"select", "upsert"}
       /\ pc[t] = "call_api" => ~conn[t]
       /\ Done(t) => ~conn[t]
  /\ main_conn => main_pc = "create_table"
  /\ main_pc = "serving" => ~main_conn

\* a step that opens a connection is taken with none held, and the step in
\* which get, put or initialization returns (row found, no row, read error,
\* write, write error) ends with none held
C17_OpenedAndClosed ==
  /\ \A t \in Threads :
       /\ (Len(trace'[t]) > Len(trace[t])
             /\ trace'[t][Len(trace'[t])] = Event("connect", "ok"))
            => ~conn[t] /\ conn'[t]
       /\ (pc[t] \in {"select", "upsert"} /\ pc'[t] # pc[t]) => conn[t] /\ ~conn'[t]
  /\ (main_pc = "create_table" /\ main_pc' # main_pc) => main_conn /\ ~main_conn'

\* C17: every store connection opened by get, put or initialization is closed
\* before that operation returns on every exit path, so a request never holds
\* more than one open connection, holds none while the provider call is in
\* flight, and no connection remains open once the request has terminated.
C17_ScopedConnections == []C17_HeldInsideOperation /\ [][C17_OpenedAndClosed]_vars

\* initialization has returned, one request ended on the read error and one
\* on the write error, and no connection is open
C17_Witness ==
  \E t \in Threads : \E u \in Threads :
    /\ main_pc = "serving"
    /\ Done(t) /\ Has(t, "select", "raise") /\ ~conn[t]
    /\ Done(u) /\ Has(u, "upsert", "raise") /\ Count(u, "connect") = 2 /\ ~conn[u]
    /\ ~main_conn

(***************************************************************************)
(* C18                                                                     *)
(***************************************************************************)
\* the normalized query of t's request: TRIM+UPPER(make), TRIM+UPPER(model)
\* and the year as given
Normalized(t) ==
  <<Upper(Strip(make[t].s)), Upper(Strip(model[t].s)), year_str[t].s>>

\* C18: two valid queries that differ in TRIM+UPPER(make), in
\* TRIM+UPPER(model) or in the literal year string never derive the same key.
C18_KeyUnique ==
  \A t \in Threads : \A u \in Threads :
    (Derived(t) /\ Derived(u) /\ Normalized(t) # Normalized(u))
      => cache_key[t] # cache_key[u]

(***************************************************************************)
(* C19                                                                     *)
(***************************************************************************)
\* C19: in every request that passes validation and reaches key derivation,
\* make and model are both non-empty after trimming.
C19_NonEmptyAfterTrim ==
  \A t \in Threads :
    Derived(t) => Strip(make[t].s) # <<>> /\ Strip(model[t].s) # <<>>

(***************************************************************************)
(* C20                                                                     *)
(***************************************************************************)
\* every row holds a non-empty list of records, in its data as in the value
\* that was dumped into it; and a read that returned is a hit (a truthy
\* cached_data, answered from the cache) exactly when it found a row
C20_RowsAreTruthy ==
  /\ \A r \in rows :
       /\ Truthy(r.payload)
       /\ r.payload.items \in Datasets
       /\ Truthy(json_loads(r.data))
  /\ \A t \in Threads :
       ReadReturned(t) =>
         /\ Truthy(cached_data[t]) <=> Has(t, "select", "row")
         /\ (Done(t) /\ resp[t].source = "cache") <=> Has(t, "select", "row")

\* the row a request commits holds the non-empty list the provider returned
\* to that request
C20_RowFromProvider ==
  \A t \in Threads :
    (pc[t] = "upsert" /\ Committed(t)') =>
      \E r \in RowsOf(cache_key[t])' : ProviderGave(t, r.payload.items)

\* C20: starting from an empty store, in every reachable state every stored
\* entry has a non-empty payload (a non-empty list of records returned by the
\* provider for that key), so the handler's truthiness test on the read value
\* classifies a read as a hit exactly when an entry for the key is present.
C20_StoredPayloadsNonEmpty == []C20_RowsAreTruthy /\ [][C20_RowFromProvider]_vars

\* one key has a row and a read of it was a hit; another key has none and a
\* read of it was a miss
C20_Witness ==
  \E t \in Threads : \E u \in Threads :
    /\ Has(t, "select", "row") /\ Truthy(cached_data[t])
    /\ RowsOf(cache_key[t]) # {}
    /\ Has(u, "select", "none") /\ ~Truthy(cached_data[u])
    /\ RowsOf(cache_key[u]) = {}

====
